---- MODULE Spec2Model ----
(***************************************************************************)
(* runtime-fmt: the resolver (outer_parse / parse), the two parse targets  *)
(* (ImmediateParse, DelayedParse), the plan wrappers (FormatBuf,           *)
(* PreparedFormat), newln and the rendering facade of src/src/lib.rs.      *)
(*                                                                         *)
(* The format string is revealed as fmt_macros::Parser scans it: `scanned` *)
(* holds the pieces parser.next() has yielded so far, `errors` is          *)
(* parser.errors.  When parse returns early, the part of the string the    *)
(* parser never reached is summarised by `unscanned`, the diagnostics the  *)
(* parser would have recorded had it been driven to the end.               *)
(***************************************************************************)
EXTENDS Integers, Sequences, FiniteSets, TLC

VARIABLES
    binding,    \* which ParseTarget outer_parse was given
    params,     \* ImmediateParse.0 / the fields of the FormatArgs type T
    scanned,    \* pieces yielded by parser.next() so far, in order
    errors,     \* parser.errors
    unscanned,  \* diagnostics lying in the part of the string never scanned
    str_accum,  \* parse: str_accum
    pieces,     \* parse: pieces, then the plan's pieces
    args,       \* parse: args, then the plan's args
    fmt,        \* parse: fmt, then the plan's fmt
    calls,      \* the calls made on the ParseTarget, in order
    result,     \* what outer_parse returned (Pending while it runs)
    pc,         \* "parse", "plan" (a plan was returned) or "failed"
    newlns,     \* number of newln calls made on the plan
    handed,     \* what the rendering calls since the plan last changed handed
                \* to their FnOnce(Arguments) (NoHand: no such call yet)
    sink        \* how the last of these calls' sink write ended

vars == <<binding, params, scanned, errors, unscanned, str_accum, pieces,
          args, fmt, calls, result, pc, newlns, handed, sink>>

planVars == <<pieces, args, fmt>>

(***************************************************************************)
(* Bounds                                                                  *)
(***************************************************************************)
\* Length of the format string, counted in pieces, explicit format
\* directives (fill, alignment, flags, width, precision) and diagnostics.
MaxSpecLen == 3
\* Number of newln calls on one plan.
MaxNewln == 2

Names == {"w", "z"}
Indexes == {0, 1, 2}
Texts == {"a", "b"}
Tags == {"", "x", "q"}
Values == {"usize", "str"}
Instances == {"t1", "t2"}

None == <<>>
Some(v) == <<v>>

\* message and optional elaboration, as pushed on parser.errors
Diagnostics ==
    { [msg |-> "unmatched } found", note |-> Some("escape it using }}")],
      [msg |-> "expected } but string was terminated", note |-> None] }

(***************************************************************************)
(* Param (lib.rs 132-158)                                                  *)
(***************************************************************************)
\* erase::Format::as_usize: only an unsigned size projects to a count
as_usize(t) == IF t = "usize" THEN Some(t) ELSE None

ParamNormal(t) == [name |-> None, value |-> t, as_usize |-> as_usize(t)]

ParamNamed(name, t) == [name |-> Some(name), value |-> t, as_usize |-> as_usize(t)]

Param == {ParamNormal(t) : t \in Values} \cup {ParamNamed("w", t) : t \in Values}

\* the parameter lists (field lists of T) the bindings are built over: every
\* list of at most one parameter, and one list in which the named usize
\* parameter is not in slot 0
ParamLists ==
    {<<>>} \cup {<<p>> : p \in Param}
        \cup {<<ParamNormal("str"), ParamNamed("w", "usize")>>}

(***************************************************************************)
(* Error (lib.rs 48-68)                                                    *)
(***************************************************************************)
Error(kind, idx, str) == [kind |-> kind, idx |-> idx, str |-> str, diags |-> <<>>]

BadSyntax(errs) == [kind |-> "BadSyntax", idx |-> 0, str |-> "", diags |-> errs]
BadIndex(i) == Error("BadIndex", i, "")
BadName(n) == Error("BadName", 0, n)
NoSuchFormat(c) == Error("NoSuchFormat", 0, c)
UnsatisfiedFormat(idx, must_implement) == Error("UnsatisfiedFormat", idx, must_implement)
BadCount(i) == Error("BadCount", i, "")
\* a Rust panic (slice index out of bounds): no Error value, the call aborts
Panic(i) == Error("Panic", i, "")

Ok(v) == [ok |-> TRUE, val |-> v]
Err(e) == [ok |-> FALSE, val |-> e]

Pending == Error("Pending", 0, "")
Built == Error("Ok", 0, "")

(***************************************************************************)
(* fmt_macros pieces                                                       *)
(***************************************************************************)
String(text) == [piece |-> "String", text |-> text]

ArgumentIs(i) == [kind |-> "ArgumentIs", idx |-> i]
ArgumentNamed(n) == [kind |-> "ArgumentNamed", name |-> n]
Position == {ArgumentIs(i) : i \in Indexes} \cup {ArgumentNamed(n) : n \in Names}

CountIs(v) == [kind |-> "CountIs", val |-> v]
CountIsName(n) == [kind |-> "CountIsName", name |-> n]
CountIsParam(i) == [kind |-> "CountIsParam", idx |-> i]
CountImplied == [kind |-> "CountImplied"]
Count == {CountImplied, CountIs(1)} \cup {CountIsName(n) : n \in Names}
            \cup {CountIsParam(i) : i \in Indexes}

Alignment == {"AlignLeft", "AlignUnknown"}

FormatSpec ==
    [fill : {None, Some("*")}, align : Alignment, flags : {0},
     precision : Count, width : Count, ty : Tags]

NextArgument(position, format) ==
    [piece |-> "NextArgument", position |-> position, format |-> format]

\* explicit directives of one argument reference
FormatLen(f) ==
    (IF f.fill = None THEN 0 ELSE 1) + (IF f.align = "AlignUnknown" THEN 0 ELSE 1)
    + (IF f.flags = 0 THEN 0 ELSE 1)
    + (IF f.precision = CountImplied THEN 0 ELSE 1)
    + (IF f.width = CountImplied THEN 0 ELSE 1)

PieceLen(p) == IF p.piece = "String" THEN 1 ELSE 1 + FormatLen(p.format)

RECURSIVE PiecesLen(_)
PiecesLen(s) == IF s = <<>> THEN 0 ELSE PieceLen(Head(s)) + PiecesLen(Tail(s))

\* length of the part of the format string scanned so far
SpecLen == PiecesLen(scanned) + Len(errors)

\* diagnostics one parser.next() call may push on parser.errors
NextErrors == {<<>>} \cup {<<d>> : d \in Diagnostics}

\* the argument references of each length, and the diagnostics that fit in
\* what is left of the string
ArgTokens ==
    [n \in 0..MaxSpecLen |->
        {NextArgument(p, f) : p \in Position, f \in {g \in FormatSpec : 1 + FormatLen(g) <= n}}]

\* what the unscanned rest of a string with n units left may hold: nothing,
\* or what one more parser.next() call would have recorded
Unscanned == [n \in 0..MaxSpecLen |-> {e \in NextErrors : Len(e) <= n}]

(***************************************************************************)
(* The erased-argument adapter (erase::Format, codegen::FormatArgs)        *)
(***************************************************************************)
\* the formatting trait a type tag selects, if any
TraitOf(spec) ==
    IF spec = "" THEN Some("Display")
    ELSE IF spec = "x" THEN Some("LowerHex")
    ELSE None

\* the formatting traits a value implements
Implements(value) == IF value = "usize" THEN {"Display", "LowerHex"} ELSE {"Display"}

\* resolved arguments: a formatting entry and a count (unsigned-size) entry
Normal(ty, idx) == [kind |-> "Normal", ty |-> ty, idx |-> idx]
Usize(idx) == [kind |-> "Usize", ty |-> "", idx |-> idx]

\* erase::Format::by_name / erase::codegen_get_child: bind value idx to the
\* routine the tag selects
by_name(value, spec, idx) ==
    IF TraitOf(spec) = None THEN Err(NoSuchFormat(spec))
    ELSE IF TraitOf(spec)[1] \notin Implements(value)
         THEN Err(UnsatisfiedFormat(idx, TraitOf(spec)[1]))
         ELSE Ok(Normal(spec, idx))

\* FormatArgs of the producer type T, whose fields are `params`
FormatArgs_validate_name(name) ==
    LET hits == {i \in 1..Len(params) : params[i].name = Some(name)}
    IN  IF hits = {} THEN None ELSE Some((CHOOSE i \in hits : \A j \in hits : i <= j) - 1)

FormatArgs_validate_index(index) == index < Len(params)

FormatArgs_as_usize(idx) ==
    IF idx >= Len(params) THEN None
    ELSE IF params[idx + 1].as_usize = None THEN None ELSE Some(Usize(idx))

codegen_get_child(spec, idx) ==
    IF idx >= Len(params) THEN Err(Panic(idx)) ELSE by_name(params[idx + 1].value, spec, idx)

(***************************************************************************)
(* ImmediateParse (lib.rs 319-339)                                         *)
(***************************************************************************)
ImmediateValidateName(name) ==
    LET hits == {i \in 1..Len(params) : params[i].name = Some(name)}
    IN  IF hits = {} THEN None ELSE Some((CHOOSE i \in hits : \A j \in hits : i <= j) - 1)

\* faulty variant: off by one, the slot just past the end is accepted
ImmediateValidateIndex_Leq(index) == index <= Len(params)

ImmediateValidateIndex(index) == index < Len(params)

\* self.0[idx] panics when idx is out of range
ImmediateFormat(spec, idx) ==
    IF idx >= Len(params) THEN Err(Panic(idx)) ELSE by_name(params[idx + 1].value, spec, idx)

\* Ok(None) is "not a count"; an out-of-range idx panics
ImmediateFormatUsize(idx) ==
    IF idx >= Len(params) THEN Err(Panic(idx))
    ELSE Ok(IF params[idx + 1].as_usize = None THEN None ELSE Some(Usize(idx)))

(***************************************************************************)
(* DelayedParse (lib.rs 341-361)                                           *)
(***************************************************************************)
DelayedValidateName(name) == FormatArgs_validate_name(name)

DelayedValidateIndex(index) == FormatArgs_validate_index(index)

DelayedFormat(spec, idx) == codegen_get_child(spec, idx)

DelayedFormatUsize(idx) == Ok(FormatArgs_as_usize(idx))

(***************************************************************************)
(* ParseTarget (lib.rs 311-317): dispatch on the target outer_parse got    *)
(***************************************************************************)
validate_name(name) ==
    IF binding = "Immediate" THEN ImmediateValidateName(name) ELSE DelayedValidateName(name)

validate_index(index) ==
    IF binding = "Immediate" THEN ImmediateValidateIndex(index) ELSE DelayedValidateIndex(index)

format(spec, idx) ==
    IF binding = "Immediate" THEN ImmediateFormat(spec, idx) ELSE DelayedFormat(spec, idx)

format_usize(idx) ==
    IF binding = "Immediate" THEN ImmediateFormatUsize(idx) ELSE DelayedFormatUsize(idx)

\* one entry of the call log
Call(op, idx, str) == [op |-> op, idx |-> idx, str |-> str]

(***************************************************************************)
(* parse (lib.rs 382-490)                                                  *)
(***************************************************************************)
\* The state of one pass of the NextArgument arm is st = [args, calls, err]:
\* the args vector, the call log, and the error of the first failed step.
Logged(st, call) == [st EXCEPT !.calls = Append(st.calls, call)]

Failed(st, e) == [st EXCEPT !.err = Some(e)]

\* faulty variant: an entry already in args is shared instead of pushed again
push_arg_Dedup(as, arg) ==
    IF \E i \in 1..Len(as) : as[i] = arg
    THEN [args |-> as, len |-> (CHOOSE i \in 1..Len(as) : as[i] = arg) - 1]
    ELSE [args |-> Append(as, arg), len |-> Len(as)]

\* lib.rs 403-407: the closure push_arg; r.len is the slot it returns
push_arg(as, arg) == [args |-> Append(as, arg), len |-> Len(as)]

\* lib.rs 413-426: the position of the reference; r.idx is the slot
ResolvePosition(st, position) ==
    IF position.kind = "ArgumentIs"
    THEN LET st1 == Logged(st, Call("validate_index", position.idx, ""))
         IN  IF ~validate_index(position.idx)
             THEN [st |-> Failed(st1, BadIndex(position.idx)), idx |-> 0]
             ELSE [st |-> st1, idx |-> position.idx]
    ELSE LET st1 == Logged(st, Call("validate_name", 0, position.name))
             found == validate_name(position.name)
         IN  IF found = None
             THEN [st |-> Failed(st1, BadName(position.name)), idx |-> 0]
             ELSE [st |-> st1, idx |-> found[1]]

\* faulty variant: the slot is taken after the push, not before
ResolveArgument_OffByOne(st, ty, idx) ==
    LET st1 == Logged(st, Call("format", idx, ty))
        got == format(ty, idx)
    IN  IF ~got.ok THEN [st |-> Failed(st1, got.val), pos |-> 0]
        ELSE [st |-> [st1 EXCEPT !.args = Append(st1.args, got.val)],
              pos |-> Len(st1.args) + 1]

\* lib.rs 427: push_arg(target.format(arg.format.ty, idx)?); r.pos is argument_pos
ResolveArgument(st, ty, idx) ==
    LET st1 == Logged(st, Call("format", idx, ty))
        got == format(ty, idx)
    IN  IF ~got.ok THEN [st |-> Failed(st1, got.val), pos |-> 0]
        ELSE LET pushed == push_arg(st1.args, got.val)
             IN  [st |-> [st1 EXCEPT !.args = pushed.args], pos |-> pushed.len]

\* faulty variant: BadCount carries the slot the count would have got in args
CountParam_ArgsSlot(st, idx) ==
    LET st1 == Logged(st, Call("format_usize", idx, ""))
        got == format_usize(idx)
    IN  IF ~got.ok THEN [st |-> Failed(st1, got.val), count |-> [kind |-> "Implied"]]
        ELSE IF got.val = None
             THEN [st |-> Failed(st1, BadCount(Len(st1.args))), count |-> [kind |-> "Implied"]]
             ELSE [st |-> [st1 EXCEPT !.args = Append(st1.args, got.val[1])],
                   count |-> [kind |-> "Param", slot |-> Len(st1.args)]]

\* lib.rs 438-441 and 447-450: push_arg(match target.format_usize(idx) {..})
CountParam(st, idx) ==
    LET st1 == Logged(st, Call("format_usize", idx, ""))
        got == format_usize(idx)
    IN  IF ~got.ok THEN [st |-> Failed(st1, got.val), count |-> [kind |-> "Implied"]]
        ELSE IF got.val = None
             THEN [st |-> Failed(st1, BadCount(idx)), count |-> [kind |-> "Implied"]]
             ELSE LET pushed == push_arg(st1.args, got.val[1])
                  IN  [st |-> [st1 EXCEPT !.args = pushed.args],
                       count |-> [kind |-> "Param", slot |-> pushed.len]]

\* lib.rs 430-454: the closure convert_count
convert_count(st, c) ==
    IF c.kind = "CountIs" THEN [st |-> st, count |-> [kind |-> "Is", val |-> c.val]]
    ELSE IF c.kind = "CountIsName"
    THEN LET st1 == Logged(st, Call("validate_name", 0, c.name))
             found == validate_name(c.name)
         IN  IF found = None
             THEN [st |-> Failed(st1, BadName(c.name)), count |-> [kind |-> "Implied"]]
             ELSE CountParam(st1, found[1])
    ELSE IF c.kind = "CountIsParam"
    THEN LET st1 == Logged(st, Call("validate_index", c.idx, ""))
         IN  IF ~validate_index(c.idx)
             THEN [st |-> Failed(st1, BadIndex(c.idx)), count |-> [kind |-> "Implied"]]
             ELSE CountParam(st1, c.idx)
    ELSE [st |-> st, count |-> [kind |-> "Implied"]]

\* lib.rs 458-463
ConvertAlign(a) ==
    IF a = "AlignLeft" THEN "Left"
    ELSE IF a = "AlignRight" THEN "Right"
    ELSE IF a = "AlignCenter" THEN "Center"
    ELSE "Unknown"

\* faulty variant: width is converted before precision
ConvertSpec_WidthFirst(st, f) ==
    LET w == convert_count(st, f.width)
    IN  IF w.st.err # None THEN [st |-> w.st, spec |-> None]
        ELSE LET p == convert_count(w.st, f.precision)
             IN  IF p.st.err # None THEN [st |-> p.st, spec |-> None]
                 ELSE [st |-> p.st,
                       spec |-> Some([fill |-> IF f.fill = None THEN " " ELSE f.fill[1],
                                      flags |-> f.flags,
                                      align |-> ConvertAlign(f.align),
                                      precision |-> p.count,
                                      width |-> w.count])]

\* lib.rs 455-466: precision is converted before width; `?` returns the
\* first error
ConvertSpec(st, f) ==
    LET p == convert_count(st, f.precision)
    IN  IF p.st.err # None THEN [st |-> p.st, spec |-> None]
        ELSE LET w == convert_count(p.st, f.width)
             IN  IF w.st.err # None THEN [st |-> w.st, spec |-> None]
                 ELSE [st |-> w.st,
                       spec |-> Some([fill |-> IF f.fill = None THEN " " ELSE f.fill[1],
                                      flags |-> f.flags,
                                      align |-> ConvertAlign(f.align),
                                      precision |-> p.count,
                                      width |-> w.count])]

\* lib.rs 402-477: the NextArgument arm after the flush; r.fmt is the
\* v1::Argument pushed on fmt when r.st.err is None
ConvertArgument(st, arg) ==
    LET r == ResolvePosition(st, arg.position)
    IN  IF r.st.err # None THEN [st |-> r.st, fmt |-> None]
        ELSE LET a == ResolveArgument(r.st, arg.format.ty, r.idx)
             IN  IF a.st.err # None THEN [st |-> a.st, fmt |-> None]
                 ELSE LET s == ConvertSpec(a.st, arg.format)
                      IN  IF s.st.err # None THEN [st |-> s.st, fmt |-> None]
                          ELSE [st |-> s.st,
                                fmt |-> Some([position |-> a.pos, format |-> s.spec[1]])]

\* faulty variant: a literal piece replaces the accumulator instead of extending it
Accumulate_Overwrite(accum, text) == text

\* lib.rs 394-401: append string to accumulator
Accumulate(accum, text) ==
    IF accum = "" THEN text
    ELSE IF text # "" THEN accum \o text
    ELSE accum

\* lib.rs 480-483: flush accumulator if needed
FinalFlush(ps, accum) == IF accum # "" THEN Append(ps, accum) ELSE ps

\* lib.rs 373-379: syntax errors recorded so far replace the result of parse
outer_parse(res, errs) == IF errs = <<>> THEN res ELSE BadSyntax(errs)

\* faulty variant: a new piece is pushed whatever the final piece is
newln_AlwaysPush(ps, len) == Append(ps, "\n")

\* faulty variant: >= for >, the final piece is taken to follow the last specifier
\* also when it precedes it
newln_Geq(ps, len) ==
    IF ps # <<>> /\ Len(ps) >= len
    THEN [ps EXCEPT ![Len(ps)] = ps[Len(ps)] \o "\n"]
    ELSE Append(ps, "\n")

\* lib.rs 296-309
newln(ps, len) ==
    IF Len(ps) > len
    THEN [ps EXCEPT ![Len(ps)] = ps[Len(ps)] \o "\n"]
    ELSE Append(ps, "\n")

(***************************************************************************)
(* The state machine                                                       *)
(***************************************************************************)
NoHand == [pieces |-> <<>>, args |-> <<>>, fmt |-> <<>>, t |-> ""]

\* FormatBuf::new / PreparedFormat::prepare enter outer_parse with a fresh
\* parser and empty pieces, args and fmt (lib.rs 372, 387-391)
Init ==
    /\ binding \in {"Immediate", "Delayed"}
    /\ params \in ParamLists
    /\ scanned = <<>>
    /\ errors = <<>>
    /\ unscanned = <<>>
    /\ str_accum = ""
    /\ pieces = <<>>
    /\ args = <<>>
    /\ fmt = <<>>
    /\ calls = <<>>
    /\ result = Pending
    /\ pc = "parse"
    /\ newlns = 0
    /\ handed = NoHand
    /\ sink = "None"

\* parser.next() yields Some(String(text)) (lib.rs 394-401)
ParseString(text, errs) ==
    /\ pc = "parse"
    /\ SpecLen + 1 + Len(errs) <= MaxSpecLen
    /\ scanned' = Append(scanned, String(text))
    /\ errors' = errors \o errs
    /\ str_accum' = Accumulate(str_accum, text)
    /\ UNCHANGED <<binding, params, unscanned, pieces, args, fmt, calls, result,
                   pc, newlns, handed, sink>>

\* parser.next() yields Some(NextArgument(arg)) (lib.rs 402-477); on the
\* first error parse returns and outer_parse decides the result (373-379)
ParseNextArgument(arg, errs) ==
    /\ pc = "parse"
    /\ SpecLen + PieceLen(arg) + Len(errs) <= MaxSpecLen
    /\ scanned' = Append(scanned, arg)
    /\ errors' = errors \o errs
    /\ str_accum' = ""
    /\ LET r == ConvertArgument([args |-> args, calls |-> calls, err |-> None], arg)
       IN  /\ calls' = r.st.calls
           /\ IF r.st.err = None
              THEN /\ pieces' = Append(pieces, str_accum)
                   /\ args' = r.st.args
                   /\ fmt' = Append(fmt, r.fmt[1])
                   /\ UNCHANGED <<result, pc, unscanned>>
              ELSE /\ pieces' = <<>>
                   /\ args' = <<>>
                   /\ fmt' = <<>>
                   /\ result' = IF r.st.err[1].kind = "Panic" THEN r.st.err[1]
                                ELSE outer_parse(r.st.err[1], errors')
                   /\ pc' = "failed"
                   /\ unscanned' \in Unscanned[MaxSpecLen - (SpecLen + PieceLen(arg) + Len(errs))]
    /\ UNCHANGED <<binding, params, newlns, handed, sink>>

\* parser.next() yields None (lib.rs 480-489, then 375-379)
ParseEnd(errs) ==
    /\ pc = "parse"
    /\ SpecLen + Len(errs) <= MaxSpecLen
    /\ errors' = errors \o errs
    /\ str_accum' = ""
    /\ result' = outer_parse(Built, errors')
    /\ IF errors' = <<>>
       THEN /\ pieces' = FinalFlush(pieces, str_accum)
            /\ pc' = "plan"
            /\ UNCHANGED <<args, fmt>>
       ELSE /\ pieces' = <<>>
            /\ args' = <<>>
            /\ fmt' = <<>>
            /\ pc' = "failed"
    /\ UNCHANGED <<binding, params, scanned, unscanned, calls, newlns, handed, sink>>

\* FormatBuf::newln / PreparedFormat::newln (lib.rs 192-195, 252-255)
Newln ==
    /\ pc = "plan"
    /\ newlns < MaxNewln
    /\ pieces' = newln(pieces, Len(fmt))
    /\ newlns' = newlns + 1
    /\ handed' = NoHand
    /\ sink' = "None"
    /\ UNCHANGED <<binding, params, scanned, errors, unscanned, str_accum, args,
                   fmt, calls, result, pc>>

\* PreparedFormat::with (lib.rs 200-203): replay the recipes against t
Replay(entry, t) == [entry EXCEPT !.kind = IF entry.kind = "Normal" THEN "new" ELSE "from_usize",
                                  !.ty = entry.ty \o "@" \o t]

\* FormatBuf::with / PreparedFormat::with (lib.rs 198-205, 258-261): what
\* Arguments::new_v1_formatted is given
Assemble(t) ==
    [pieces |-> pieces,
     args |-> IF binding = "Immediate" THEN args
              ELSE [i \in 1..Len(args) |-> Replay(args[i], t)],
     fmt |-> fmt,
     t |-> t]

\* faulty variant: a failed sink write leaves the plan without its pieces
Render_Draining(t, ok) ==
    /\ pc = "plan"
    /\ binding = "Immediate" => t = "t1"
    /\ handed' = Assemble(t)
    /\ sink' = IF ok THEN "Ok" ELSE "Err"
    /\ pieces' = IF ok THEN pieces ELSE <<>>
    /\ UNCHANGED <<binding, params, scanned, errors, unscanned, str_accum,
                   args, fmt, calls, result, pc, newlns>>

\* format / print / write_io / write_fmt (lib.rs 207-225, 263-281) on the
\* instance t; ok is whether the sink write succeeded (write_io and
\* write_fmt may report a failure)
Render(t, ok) ==
    /\ pc = "plan"
    /\ binding = "Immediate" => t = "t1"
    /\ handed' = Assemble(t)
    /\ sink' = IF ok THEN "Ok" ELSE "Err"
    /\ UNCHANGED <<binding, params, scanned, errors, unscanned, str_accum, pieces,
                   args, fmt, calls, result, pc, newlns>>

Next ==
    \/ \E text \in Texts, errs \in NextErrors : ParseString(text, errs)
    \/ \E errs \in NextErrors :
          /\ SpecLen + Len(errs) <= MaxSpecLen
          /\ \E arg \in ArgTokens[MaxSpecLen - SpecLen - Len(errs)] :
                ParseNextArgument(arg, errs)
    \/ \E errs \in NextErrors : ParseEnd(errs)
    \/ Newln
    \/ \E t \in Instances, ok \in BOOLEAN : Render(t, ok)

Spec == Init /\ [][Next]_vars

(***************************************************************************)
(* The format string, read back from what the parser yielded               *)
(***************************************************************************)
IsRef(p) == p.piece = "NextArgument"

\* where the argument references lie in the scanned string
RefIdx == {i \in 1..Len(scanned) : IsRef(scanned[i])}

NumRefs == Cardinality(RefIdx)

\* the place of the k-th argument reference, k in 1..NumRefs
RefAt(k) == CHOOSE i \in RefIdx : Cardinality({j \in RefIdx : j <= i}) = k

Ref(k) == scanned[RefAt(k)]

\* a width or precision given by name or by index
IsParamCount(c) == c.kind \in {"CountIsName", "CountIsParam"}

NumParamCounts ==
    Cardinality({i \in RefIdx : IsParamCount(scanned[i].format.precision)})
    + Cardinality({i \in RefIdx : IsParamCount(scanned[i].format.width)})

\* the literal text of scanned[lo..hi], in order
RECURSIVE LiteralText(_, _)
LiteralText(lo, hi) ==
    IF lo > hi THEN ""
    ELSE (IF IsRef(scanned[lo]) THEN "" ELSE scanned[lo].text) \o LiteralText(lo + 1, hi)

\* the literal text between reference k-1 and reference k
TextBefore(k) == LiteralText(IF k = 1 THEN 1 ELSE RefAt(k - 1) + 1, RefAt(k) - 1)

\* the literal text after the last reference
TrailingText == LiteralText(IF NumRefs = 0 THEN 1 ELSE RefAt(NumRefs) + 1, Len(scanned))

RECURSIVE Concat(_)
Concat(ps) == IF ps = <<>> THEN "" ELSE Head(ps) \o Concat(Tail(ps))

\* the parameter slot a position or a count denotes, once validated
SlotOf(r) == IF r.kind \in {"ArgumentIs", "CountIsParam"} THEN r.idx ELSE validate_name(r.name)[1]

\* whether the binding accepts a position or a count given by name or index
Accepts(r) ==
    IF r.kind \in {"ArgumentIs", "CountIsParam"} THEN validate_index(r.idx)
    ELSE validate_name(r.name) # None

\* outer_parse has returned a plan, and nothing was done with it yet
Returned == pc = "plan" /\ newlns = 0 /\ handed = NoHand

\* every diagnostic of the whole string: those recorded, then those never reached
AllDiagnostics == errors \o unscanned

\* the string holds an index reference no parameter answers to
HasBadIndex ==
    \E i \in RefIdx : /\ scanned[i].position.kind = "ArgumentIs"
                      /\ ~validate_index(scanned[i].position.idx)

(***************************************************************************)
(* C1: a string with a syntax error anywhere and an out-of-range index     *)
(* anywhere is answered with BadSyntax carrying every diagnostic of the    *)
(* whole string, never with BadIndex.                                      *)
(***************************************************************************)
C1_SyntaxPriority ==
    (pc = "failed" /\ AllDiagnostics # <<>> /\ HasBadIndex)
        => result = BadSyntax(AllDiagnostics)

(***************************************************************************)
(* C2: in a returned plan every format specification's position p is in    *)
(* range of args and args[p] is the entry format(ty, idx) gives for that   *)
(* reference; every Count::Param(c) is in range and args[c] is the entry   *)
(* format_usize gives for the parameter the count named.                   *)
(***************************************************************************)
CountWellResolved(c, count) ==
    IF IsParamCount(c)
    THEN /\ count.kind = "Param"
         /\ count.slot < Len(args)
         /\ args[count.slot + 1].kind = "Usize"
         /\ Some(args[count.slot + 1]) = format_usize(SlotOf(c)).val
    ELSE count.kind # "Param"

C2_PlanIndexes ==
    Returned =>
        /\ Len(fmt) = NumRefs
        /\ \A k \in 1..NumRefs :
            /\ fmt[k].position < Len(args)
            /\ args[fmt[k].position + 1].kind = "Normal"
            /\ args[fmt[k].position + 1]
                 = format(Ref(k).format.ty, SlotOf(Ref(k).position)).val
            /\ CountWellResolved(Ref(k).format.precision, fmt[k].format.precision)
            /\ CountWellResolved(Ref(k).format.width, fmt[k].format.width)

C2_Witness ==
    /\ Returned
    /\ NumRefs = 2
    /\ fmt[2].format.width.kind = "Param"
    /\ Ref(2).position.kind = "ArgumentNamed"

(***************************************************************************)
(* C3: after newln, fragment-count = argument-count + 1, argument-count    *)
(* being the length of args.  As stated it fails for a plan with a width   *)
(* or precision count that references a parameter; what holds is           *)
(* fragment-count = format-specification-count + 1.                        *)
(***************************************************************************)
C3_Original == (pc = "plan" /\ newlns >= 1) => Len(pieces) = Len(args) + 1

C3_InterleavingAfterNewln ==
    (pc = "plan" /\ newlns >= 1) =>
        /\ Len(pieces) = Len(fmt) + 1
        /\ Len(args) = Len(fmt) + NumParamCounts
        /\ (NumParamCounts = 0 => Len(pieces) = Len(args) + 1)

C3_Witness ==
    /\ pc = "plan"
    /\ newlns = 2
    /\ NumParamCounts >= 1
    /\ Len(pieces) = Len(fmt) + 1
    /\ Len(pieces) # Len(args) + 1

LastPiece == scanned[Len(scanned)]

\* pieces with "\n" pushed on the end of the final piece
LastExtended(ps) == [ps EXCEPT ![Len(ps)] = ps[Len(ps)] \o "\n"]

(***************************************************************************)
(* C4: newln on a plan whose string ends in non-empty literal text extends *)
(* the final fragment and keeps the fragment count; on a plan whose string *)
(* ends in an argument reference it appends exactly one fragment "\n" and  *)
(* changes no other; only the first newln of a plan can add a fragment,    *)
(* every later one extends the final fragment.                             *)
(***************************************************************************)
C4_NewlineShape ==
    [][(pc = "plan" /\ newlns' = newlns + 1) =>
        /\ (newlns = 0 /\ scanned # <<>> /\ ~IsRef(LastPiece) /\ LastPiece.text # "")
              => (Len(pieces') = Len(pieces) /\ pieces' = LastExtended(pieces))
        /\ (newlns = 0 /\ scanned # <<>> /\ IsRef(LastPiece))
              => (Len(pieces') = Len(pieces) + 1 /\ pieces' = Append(pieces, "\n"))
        /\ newlns >= 1
              => (Len(pieces') = Len(pieces) /\ pieces' = LastExtended(pieces))]_vars

C4_Witness ==
    /\ pc = "plan"
    /\ newlns = 2
    /\ scanned # <<>> /\ IsRef(LastPiece)
    /\ Len(pieces) = Len(fmt) + 1
    /\ pieces[Len(pieces)] = "\n\n"

(***************************************************************************)
(* C5: with no syntax diagnostic recorded, a reference whose position is   *)
(* the first failing step yields BadIndex(i) with exactly the referenced   *)
(* index when validate_index(i) is false (Immediate: i >= number of        *)
(* parameters), or BadName(n) with exactly the referenced name when        *)
(* validate_name(n) finds nothing; no plan is returned.                    *)
(***************************************************************************)
\* parse returned early on the reference it had just taken, and the parser
\* had recorded no diagnostic
FailedAtRef == pc = "failed" /\ errors = <<>> /\ scanned # <<>> /\ IsRef(LastPiece)

NoPlan == pieces = <<>> /\ args = <<>> /\ fmt = <<>>

C5_PositionErrors ==
    FailedAtRef =>
        LET pos == LastPiece.position
        IN  /\ (pos.kind = "ArgumentIs" /\ ~validate_index(pos.idx))
                  => (result = BadIndex(pos.idx) /\ NoPlan)
            /\ (pos.kind = "ArgumentIs" /\ binding = "Immediate" /\ pos.idx >= Len(params))
                  => (result = BadIndex(pos.idx) /\ NoPlan)
            /\ (pos.kind = "ArgumentNamed" /\ validate_name(pos.name) = None)
                  => (result = BadName(pos.name) /\ NoPlan)

C5_Witness ==
    /\ FailedAtRef
    /\ binding = "Immediate"
    /\ Len(scanned) = 2
    /\ Len(params) = 1
    /\ result = BadIndex(1)

(***************************************************************************)
(* C6: a count given by name or index must pass validate_name /            *)
(* validate_index (else BadName / BadIndex); if it passes and format_usize *)
(* gives nothing the result is BadCount(k), k the referenced parameter's   *)
(* slot, not a position in args; a literal or implied count never fails    *)
(* and never calls the binding.                                            *)
(***************************************************************************)
\* the error converting one count must end in, if any
CountError(c) ==
    IF ~IsParamCount(c) THEN None
    ELSE IF ~Accepts(c)
         THEN Some(IF c.kind = "CountIsName" THEN BadName(c.name) ELSE BadIndex(c.idx))
         ELSE IF format_usize(SlotOf(c)).val = None THEN Some(BadCount(SlotOf(c)))
         ELSE None

\* the position and the value of the reference resolve
ValueResolves(a) == Accepts(a.position) /\ format(a.format.ty, SlotOf(a.position)).ok

C6_CountResolution ==
    /\ (FailedAtRef /\ ValueResolves(LastPiece)) =>
          LET pe == CountError(LastPiece.format.precision)
              we == CountError(LastPiece.format.width)
          IN  /\ pe # None \/ we # None
              /\ result = IF pe # None THEN pe[1] ELSE we[1]
    /\ Returned =>
          /\ \A i \in RefIdx : /\ CountError(scanned[i].format.precision) = None
                               /\ CountError(scanned[i].format.width) = None
          /\ Len(calls) = 2 * NumRefs + 2 * NumParamCounts

C6_Witness ==
    /\ FailedAtRef
    /\ LastPiece.format.width.kind = "CountIsName"
    /\ LastPiece.format.precision.kind = "CountIs"
    /\ result = BadCount(0)
    /\ Len(scanned) = 1

(***************************************************************************)
(* C7: rendering leaves pieces, args and fmt unchanged whether the sink    *)
(* write succeeds or fails, and calls nothing on the binding; a render     *)
(* that follows another hands over the same fragments and format           *)
(* specifications; newln is the only operation that changes a plan, and it *)
(* changes only the fragments.                                             *)
(***************************************************************************)
C7_RenderReadOnly ==
    [][pc = "plan" =>
        /\ newlns' = newlns =>
              /\ planVars' = planVars
              /\ calls' = calls /\ result' = result /\ pc' = pc
              /\ handed'.pieces = pieces /\ handed'.fmt = fmt
              /\ Len(handed'.args) = Len(args)
              /\ handed # NoHand => (handed'.pieces = handed.pieces /\ handed'.fmt = handed.fmt)
        /\ newlns' # newlns =>
              (args' = args /\ fmt' = fmt /\ calls' = calls /\ result' = result)]_vars

C7_Witness ==
    /\ pc = "plan"
    /\ binding = "Delayed"
    /\ newlns = 1
    /\ sink = "Err"
    /\ Len(fmt) = 2
    /\ handed.pieces = pieces /\ handed.fmt = fmt

(***************************************************************************)
(* C8: a plan has one args entry per argument reference plus one per       *)
(* count given by name or index, and one format specification per          *)
(* reference; references (or a reference and a count) that denote the same *)
(* parameter get distinct entries with distinct slot numbers.              *)
(***************************************************************************)
SlotUses ==
    {<<k, "position">> : k \in 1..Len(fmt)}
        \cup {<<k, "precision">> : k \in {j \in 1..Len(fmt) : fmt[j].format.precision.kind = "Param"}}
        \cup {<<k, "width">> : k \in {j \in 1..Len(fmt) : fmt[j].format.width.kind = "Param"}}

SlotUsed(u) ==
    IF u[2] = "position" THEN fmt[u[1]].position
    ELSE IF u[2] = "precision" THEN fmt[u[1]].format.precision.slot
    ELSE fmt[u[1]].format.width.slot

C8_NoDedup ==
    Returned =>
        /\ Len(args) = NumRefs + NumParamCounts
        /\ Len(fmt) = NumRefs
        /\ \A u, v \in SlotUses : u # v => SlotUsed(u) # SlotUsed(v)
        /\ \A u \in SlotUses : SlotUsed(u) < Len(args)

C8_Witness ==
    /\ Returned
    /\ Len(args) = 3
    /\ args[1] = args[2]
    /\ args[3].kind = "Usize" /\ args[3].idx = args[1].idx

(***************************************************************************)
(* C9: in a plan, before any newln, fragment i is the concatenation in     *)
(* order of the literal pieces between reference i-1 and reference i       *)
(* (empty when there are none); there is one more, final fragment exactly  *)
(* when the literal text after the last reference is non-empty; hence      *)
(* |fmt| <= |pieces| <= |fmt| + 1 and the fragments concatenate to the     *)
(* literal text of the string.                                             *)
(***************************************************************************)
C9_Fragments ==
    Returned =>
        /\ \A k \in 1..NumRefs : pieces[k] = TextBefore(k)
        /\ Len(pieces) = NumRefs + (IF TrailingText # "" THEN 1 ELSE 0)
        /\ TrailingText # "" => pieces[Len(pieces)] = TrailingText
        /\ Len(fmt) <= Len(pieces) /\ Len(pieces) <= Len(fmt) + 1
        /\ Concat(pieces) = LiteralText(1, Len(scanned))

C9_Witness ==
    /\ Returned
    /\ Len(scanned) = 3
    /\ IsRef(LastPiece)
    /\ pieces = <<"ab">>

(***************************************************************************)
(* C10: per reference, in stream order, the binding is called in the order *)
(* position validation, format, precision (validation then format_usize),  *)
(* width (validation then format_usize); format and format_usize only get  *)
(* an index that validate_index accepted or validate_name returned; after  *)
(* the first failing step no call is made and no piece is taken, and the   *)
(* error returned is that step's; a precision count's slot precedes the    *)
(* width count's.  The log is read while parse runs, when it fails and     *)
(* when it returns the plan (no later operation calls the binding: C7).    *)
(***************************************************************************)
ValidateCall(r) ==
    IF r.kind \in {"ArgumentIs", "CountIsParam"} THEN Call("validate_index", r.idx, "")
    ELSE Call("validate_name", 0, r.name)

ValidateError(r) ==
    IF r.kind \in {"ArgumentIs", "CountIsParam"} THEN BadIndex(r.idx) ELSE BadName(r.name)

\* the calls converting one count makes
CallsOfCount(c) ==
    IF ~IsParamCount(c) THEN <<>>
    ELSE IF ~Accepts(c) THEN <<ValidateCall(c)>>
    ELSE <<ValidateCall(c), Call("format_usize", SlotOf(c), "")>>

\* the calls one reference makes, up to its first failing step
CallsOfRef(a) ==
    IF ~Accepts(a.position) THEN <<ValidateCall(a.position)>>
    ELSE LET head == <<ValidateCall(a.position),
                       Call("format", SlotOf(a.position), a.format.ty)>>
         IN  IF ~format(a.format.ty, SlotOf(a.position)).ok THEN head
             ELSE head \o CallsOfCount(a.format.precision)
                       \o (IF CountError(a.format.precision) # None THEN <<>>
                           ELSE CallsOfCount(a.format.width))

\* the error of the first failing step of one reference, if any
RefError(a) ==
    IF ~Accepts(a.position) THEN Some(ValidateError(a.position))
    ELSE IF ~format(a.format.ty, SlotOf(a.position)).ok
         THEN Some(format(a.format.ty, SlotOf(a.position)).val)
         ELSE IF CountError(a.format.precision) # None THEN CountError(a.format.precision)
              ELSE CountError(a.format.width)

RECURSIVE CallsUpTo(_)
CallsUpTo(n) ==
    IF n = 0 THEN <<>>
    ELSE CallsUpTo(n - 1) \o (IF IsRef(scanned[n]) THEN CallsOfRef(scanned[n]) ELSE <<>>)

\* call j of the log was made with an index the call before it validated
Validated(j) ==
    /\ j > 1
    /\ \/ /\ calls[j - 1].op = "validate_index"
          /\ calls[j - 1].idx = calls[j].idx
          /\ validate_index(calls[j].idx)
       \/ /\ calls[j - 1].op = "validate_name"
          /\ validate_name(calls[j - 1].str) = Some(calls[j].idx)
    /\ binding = "Immediate" => calls[j].idx < Len(params)

C10_CallOrder ==
    /\ (pc = "plan" => Returned) =>
          /\ calls = CallsUpTo(Len(scanned))
          /\ result.kind # "Panic"
          /\ \A j \in 1..Len(calls) :
                /\ calls[j].op = "format" => Validated(j)
                /\ calls[j].op = "format_usize" => Validated(j)
          /\ \A i \in RefIdx : i < Len(scanned) => RefError(scanned[i]) = None
    /\ FailedAtRef => Some(result) = RefError(LastPiece)
    /\ Returned =>
          \A k \in 1..Len(fmt) :
              LET f == fmt[k].format
              IN  /\ f.precision.kind = "Param" => fmt[k].position < f.precision.slot
                  /\ f.width.kind = "Param" => fmt[k].position < f.width.slot
                  /\ (f.precision.kind = "Param" /\ f.width.kind = "Param")
                        => f.precision.slot < f.width.slot

C10_Witness ==
    /\ FailedAtRef
    /\ LastPiece.format.precision = CountIsName("z")
    /\ LastPiece.format.width = CountIsParam(2)
    /\ result = BadName("z")
    /\ Len(calls) = 3

====
